---- MODULE Spec2Model ----
(***************************************************************************)
(* Model of datahub-web-react/src/app/lineageV3/LineageEntityNode/         *)
(* useAvoidIntersections.ts: the cascade that pushes lineage nodes down    *)
(* when a node grows, its inverse, and the two hooks that trigger it.      *)
(*                                                                         *)
(* Coordinates are modelled as integers; an optional number (width,        *)
(* height) is the empty sequence when absent and <<v>> when set.           *)
(***************************************************************************)
EXTENDS Integers, Sequences, FiniteSets, TLC

VARIABLES
    nodes,      \* the node collection owned by the React Flow store
    pre,        \* the collection as it was before the last operation
    lastOp,     \* the last operation that ran
    calls,      \* the number of setNodes calls the last operation made
    inv,        \* arguments and MoveSet of the last avoidIntersections run
    cleanup,    \* the function the last direct call returned, held by its caller
    sync,       \* the useAvoidIntersections hook instance
    often,      \* the useAvoidIntersectionsOften hook instance
    runs,       \* the number of avoidIntersections calls the last operation made
    expansion,  \* history: the last push a hook made for a grown expandHeight
    snapshot,   \* the collection getNode and getNodes read
    shared,     \* history: forward runs on one snapshot, and the runs of others
    steps       \* operations performed so far

vars == <<nodes, pre, lastOp, calls, inv, cleanup, sync, often, runs, expansion,
          snapshot, shared, steps>>

-----------------------------------------------------------------------------
(* Bounds and input domains *)

MaxSteps == 3
MaxHookSteps == 3

RootTypes == {"DATASET", "DATA_JOB"}
NodeIds == {"a", "b", "c", "d"}
RefIds == {"a", "b", "missing"}
ExpandHeights == {0, 50, 120}
HookExpandHeights == {0, 50}
HookIds == {"a", "missing"}

-----------------------------------------------------------------------------
(* Constants of the program *)

MIN_SEPARATION == 10
LINEAGE_NODE_HEIGHT == 80
LINEAGE_NODE_WIDTH == 320

-----------------------------------------------------------------------------
(* Helpers of the code *)

\* isTransformational(node.data, rootType): the classification predicate of
\* @app/lineageV3/common; data is modelled as the set of root types for
\* which the node counts as transformational.
isTransformational(data, rootType) == rootType \in data

\* `value || fallback` on an optional number: absent and 0 are both falsy.
OrDefault(opt, fallback) ==
    IF opt = <<>> THEN fallback
    ELSE IF opt[1] = 0 THEN fallback
    ELSE opt[1]

Min(p, q) == IF p < q THEN p ELSE q
Max(p, q) == IF p > q THEN p ELSE q

\* Mutant: the right-hand side takes the smaller left edge, not the larger.
overlapsXMinMin(a, b) ==
    Min(a.x + OrDefault(a.width, LINEAGE_NODE_WIDTH),
        b.x + OrDefault(b.width, LINEAGE_NODE_WIDTH)) > Min(a.x, b.x)

\* Mutant: only the first node's right edge is compared.
overlapsXOneSided(a, b) == a.x + OrDefault(a.width, LINEAGE_NODE_WIDTH) > b.x

overlapsX(a, b) ==
    Min(a.x + OrDefault(a.width, LINEAGE_NODE_WIDTH),
        b.x + OrDefault(b.width, LINEAGE_NODE_WIDTH)) > Max(a.x, b.x)

\* Mutant: the minimum separation is left out of the distance.
pushDownDistanceNoSeparation(newY, nodeY) == Max(0, newY - nodeY)

\* Mutant: the distance is not clamped at 0.
pushDownDistanceUnclamped(newY, nodeY) == newY + MIN_SEPARATION - nodeY

pushDownDistance(newY, nodeY) == Max(0, newY + MIN_SEPARATION - nodeY)

\* getNode(id): the node of the store with that id, <<>> when there is none.
getNode(ns, id) ==
    LET hits == SelectSeq(ns, LAMBDA n : n.id = id)
    IN  IF hits = <<>> THEN <<>> ELSE <<hits[1]>>

\* Mutant: nodes above the reference node are not filtered out.
CandidatesAnyY(self, ns, rootType) ==
    SelectSeq(SelectSeq(ns, LAMBDA n : ~isTransformational(n.data, rootType)),
              LAMBDA n : n.id # self.id /\ overlapsX(self, n))

\* getNodes().filter(...).filter(...): the candidates, in snapshot order.
Candidates(self, ns, rootType) ==
    SelectSeq(SelectSeq(ns, LAMBDA n : ~isTransformational(n.data, rootType)),
              LAMBDA n : n.id # self.id /\ n.y >= self.y /\ overlapsX(self, n))

\* nodes.sort((a, b) => a.position.y - b.position.y): ascending by y, stable.
InsertByY(sorted, n) ==
    LET k == Cardinality({i \in 1..Len(sorted) : sorted[i].y <= n.y})
    IN  SubSeq(sorted, 1, k) \o <<n>> \o SubSeq(sorted, k + 1, Len(sorted))

\* Mutant: the candidates are left in snapshot order.
SortByYUnsorted(s) == s

RECURSIVE SortByY(_)
SortByY(s) ==
    IF s = <<>> THEN <<>>
    ELSE InsertByY(SortByY(SubSeq(s, 1, Len(s) - 1)), s[Len(s)])

EmptyMoves == [i \in {} |-> 0]

\* Map.set(id, distance)
MapSet(m, id, distance) == (id :> distance) @@ m

\* Mutant: the frontier advances to the pushed node's top edge, not its bottom.
RECURSIVE CascadeNoHeight(_, _, _, _)
CascadeNoHeight(sorted, i, newY, nodesToMove) ==
    IF i > Len(sorted) THEN nodesToMove
    ELSE LET node == sorted[i]
             distance == pushDownDistance(newY, node.y)
         IN  IF pushDownDistance(newY, node.y) # 0
             THEN CascadeNoHeight(sorted, i + 1, node.y + distance,
                                  MapSet(nodesToMove, node.id, distance))
             ELSE nodesToMove

\* Mutant: a node that is already clear advances the frontier and the walk
\* goes on instead of stopping.
RECURSIVE CascadeNoBreak(_, _, _, _)
CascadeNoBreak(sorted, i, newY, nodesToMove) ==
    IF i > Len(sorted) THEN nodesToMove
    ELSE LET node == sorted[i]
             distance == pushDownDistance(newY, node.y)
             bottom == node.y + distance + OrDefault(node.height, LINEAGE_NODE_HEIGHT)
         IN  IF pushDownDistance(newY, node.y) # 0
             THEN CascadeNoBreak(sorted, i + 1, bottom,
                                 MapSet(nodesToMove, node.id, distance))
             ELSE CascadeNoBreak(sorted, i + 1, bottom, nodesToMove)

\* The for-loop over the sorted candidates, from index i with frontier newY.
RECURSIVE Cascade(_, _, _, _)
Cascade(sorted, i, newY, nodesToMove) ==
    IF i > Len(sorted) THEN nodesToMove
    ELSE LET node == sorted[i]
             distance == pushDownDistance(newY, node.y)
         IN  IF pushDownDistance(newY, node.y) # 0
             THEN Cascade(sorted, i + 1,
                          node.y + distance + OrDefault(node.height, LINEAGE_NODE_HEIGHT),
                          MapSet(nodesToMove, node.id, distance))
             ELSE nodesToMove

\* Mutant: the direction is ignored and every move goes down.
moveNodesAlwaysDown(ns, nodesToMove, down) ==
    [i \in 1..Len(ns) |->
        LET node == ns[i]
            moveAmount == IF node.id \in DOMAIN nodesToMove
                          THEN nodesToMove[node.id] ELSE 0
        IN  IF moveAmount # 0
            THEN [node EXCEPT !.y = node.y + moveAmount]
            ELSE node]

\* Mutant: a moved node is rebuilt from its id and position alone, so its
\* measured size is lost.
moveNodesResetsSize(ns, nodesToMove, down) ==
    [i \in 1..Len(ns) |->
        LET node == ns[i]
            moveAmount == IF node.id \in DOMAIN nodesToMove
                          THEN nodesToMove[node.id] ELSE 0
        IN  IF moveAmount # 0
            THEN [node EXCEPT !.y = node.y + (IF down THEN moveAmount ELSE -moveAmount),
                              !.width = <<>>, !.height = <<>>]
            ELSE node]

\* Mutant: the sign of the move is flipped.
moveNodesUpsideDown(ns, nodesToMove, down) ==
    [i \in 1..Len(ns) |->
        LET node == ns[i]
            moveAmount == IF node.id \in DOMAIN nodesToMove
                          THEN nodesToMove[node.id] ELSE 0
        IN  IF moveAmount # 0
            THEN [node EXCEPT !.y = node.y + (IF down THEN -moveAmount ELSE moveAmount)]
            ELSE node]

\* The updater moveNodes hands to setNodes, applied to the collection ns.
moveNodes(ns, nodesToMove, down) ==
    [i \in 1..Len(ns) |->
        LET node == ns[i]
            moveAmount == IF node.id \in DOMAIN nodesToMove
                          THEN nodesToMove[node.id] ELSE 0
        IN  IF moveAmount # 0
            THEN [node EXCEPT !.y = node.y + (IF down THEN moveAmount ELSE -moveAmount)]
            ELSE node]

\* The two kinds of function avoidIntersections returns.
Inert == [moveBack |-> FALSE, nodesToMove |-> EmptyMoves]
MoveBack(nodesToMove) == [moveBack |-> TRUE, nodesToMove |-> nodesToMove]

\* Mutant: the size test is dropped, so an empty MoveSet is applied too.
HasMovesAlways(nodesToMove) == TRUE

\* `if (nodesToMove.size)`
HasMoves(nodesToMove) == DOMAIN nodesToMove # {}

\* avoidIntersections on the store ns: the collection it leaves, the number
\* of setNodes calls it made, the MoveSet it computed and what it returns.
avoidIntersections(id, expandHeight, rootType, ns) ==
    LET found == getNode(ns, id)
    IN  IF found = <<>>
        THEN [nodes |-> ns, calls |-> 0, found |-> FALSE, order |-> <<>>,
              nodesToMove |-> EmptyMoves, returns |-> Inert]
        ELSE LET self == found[1]
                 sorted == SortByY(Candidates(self, ns, rootType))
                 nodesToMove == Cascade(sorted, 1, self.y + expandHeight, EmptyMoves)
                 order == [i \in 1..Len(sorted) |-> sorted[i].id]
             IN  IF HasMoves(nodesToMove)
                 THEN [nodes |-> moveNodes(ns, nodesToMove, TRUE), calls |-> 1,
                       found |-> TRUE, order |-> order,
                       nodesToMove |-> nodesToMove, returns |-> MoveBack(nodesToMove)]
                 ELSE [nodes |-> ns, calls |-> 0, found |-> TRUE, order |-> order,
                       nodesToMove |-> nodesToMove, returns |-> Inert]

\* Mutant: every returned function is a moveBack, also over an empty MoveSet.
callCleanupAlwaysMoves(c, ns) ==
    [nodes |-> moveNodes(ns, c.nodesToMove, FALSE), calls |-> 1]

\* Calling a function avoidIntersections returned.
callCleanup(c, ns) ==
    IF c.moveBack
    THEN [nodes |-> moveNodes(ns, c.nodesToMove, FALSE), calls |-> 1]
    ELSE [nodes |-> ns, calls |-> 0]

-----------------------------------------------------------------------------
(* Initial layouts *)

Node(id, x, y, width, height, data) ==
    [id |-> id, x |-> x, y |-> y, width |-> width, height |-> height, data |-> data]

Plain == [x |-> 0, width |-> <<>>, height |-> <<40>>, data |-> {}]
Unmeasured == [x |-> 0, width |-> <<>>, height |-> <<>>, data |-> {}]
Flat == [x |-> 0, width |-> <<>>, height |-> <<0>>, data |-> {}]
Aside == [x |-> 400, width |-> <<>>, height |-> <<40>>, data |-> {}]
Wide == [x |-> 400, width |-> <<500>>, height |-> <<40>>, data |-> {}]
Job == [x |-> 0, width |-> <<>>, height |-> <<40>>, data |-> {"DATASET"}]

Shaped(id, y, s) == Node(id, s.x, y, s.width, s.height, s.data)

\* Four nodes; "d" may lie above "b" and "c" although it is listed last.
Layouts ==
    { << Node("a", 0, 100, <<>>, <<>>, {}),
         Shaped("b", yb, sb), Shaped("c", yc, sc), Shaped("d", yd, sd) >> :
        yb \in {90, 150}, sb \in {Plain, Flat, Wide},
        yc \in {150, 210}, sc \in {Plain, Aside, Job},
        yd \in {120, 210}, sd \in {Plain, Unmeasured, Aside} }

\* History of the last run; after is the collection it left, and repeat holds
\* the MoveSet of the run before it when that run had the same arguments and
\* the collection has not changed since.
NoInv == [id |-> "", expandHeight |-> 0, rootType |-> "", found |-> FALSE,
          order |-> <<>>, nodesToMove |-> EmptyMoves, after |-> <<>>, repeat |-> <<>>]

\* A hook instance's props are <<>> while it is not mounted. timer is the
\* queue of pending setTimeout tasks of the hook, each with its token and the
\* arguments its callback closes over; timeout is the token the last effect's
\* cleanup closes over, <<>> when that effect scheduled nothing; scheduled
\* counts the setTimeout calls and fired is the token of the last task run.
NoHook == <<>>
NoOften == [props |-> <<>>, nodeVersion |-> 0, displayVersion |-> 0, timer |-> <<>>,
            timeout |-> <<>>, scheduled |-> 0, fired |-> 0]

NoExpansion == [stage |-> "none", hook |-> "", from |-> 0, base |-> <<>>,
                nodesToMove |-> EmptyMoves]

\* History of the forward runs that read one snapshot: the node they were for,
\* the snapshot, how many of them pushed nodes, the nodes they pushed and the
\* expandHeights they used; healed is set by a run for the same node that
\* follows two or more of them and reads the current collection. kept is set
\* once a caller holds a returned function, and alone is the collection ns
\* with only the MoveSets of the other runs applied.
NoShared(ns) == [id |-> "", snap |-> <<>>, count |-> 0, pushed |-> {}, heights |-> {},
                 healed |-> FALSE, kept |-> FALSE, alone |-> ns]

Start(ns) ==
    /\ nodes = ns
    /\ pre = ns
    /\ lastOp = "init"
    /\ calls = 0
    /\ runs = 0
    /\ inv = NoInv
    /\ cleanup = [fn |-> Inert, base |-> ns, runs |-> 0]
    /\ sync = NoHook
    /\ often = NoOften
    /\ expansion = NoExpansion
    /\ snapshot = ns
    /\ shared = NoShared(ns)
    /\ steps = 0

Init == \E ns \in Layouts : Start(ns)

-----------------------------------------------------------------------------
(* Direct calls *)

Record(id, expandHeight, rootType, r) ==
    [id |-> id, expandHeight |-> expandHeight, rootType |-> rootType,
     found |-> r.found, order |-> r.order, nodesToMove |-> r.nodesToMove,
     after |-> r.nodes,
     repeat |-> IF /\ inv.id = id /\ inv.expandHeight = expandHeight
                   /\ inv.rootType = rootType /\ inv.after = nodes
                THEN <<inv.nodesToMove>> ELSE <<>>]

\* A caller runs avoidIntersections and keeps the function it returns.
Invoke(id, expandHeight, rootType) ==
    /\ steps < MaxSteps
    /\ LET r == avoidIntersections(id, expandHeight, rootType, nodes)
       IN  /\ nodes' = r.nodes
           /\ calls' = r.calls
           /\ inv' = Record(id, expandHeight, rootType, r)
           /\ cleanup' = [fn |-> r.returns, base |-> nodes, runs |-> 0]
    /\ runs' = 1
    /\ pre' = nodes
    /\ lastOp' = "invoke"
    /\ steps' = steps + 1
    /\ snapshot' = nodes'
    /\ UNCHANGED <<sync, often, expansion, shared>>

\* The caller calls the function it kept.
Cleanup ==
    /\ steps < MaxSteps
    /\ lastOp \in {"invoke", "cleanup"}
    /\ LET r == callCleanup(cleanup.fn, nodes)
       IN  /\ nodes' = r.nodes
           /\ calls' = r.calls
    /\ cleanup' = [cleanup EXCEPT !.runs = @ + 1]
    /\ runs' = 0
    /\ pre' = nodes
    /\ lastOp' = "cleanup"
    /\ steps' = steps + 1
    /\ snapshot' = nodes'
    /\ UNCHANGED <<inv, sync, often, expansion, shared>>

Next ==
    \/ \E id \in RefIds, expandHeight \in ExpandHeights, rootType \in RootTypes :
          Invoke(id, expandHeight, rootType)
    \/ Cleanup

Spec == Init /\ [][Next]_vars

-----------------------------------------------------------------------------
(* The hooks *)

HookProps ==
    [id : HookIds, expandHeight : HookExpandHeights, rootType : RootTypes,
     skip : BOOLEAN]

HookLayouts ==
    { << Node("a", 0, 100, <<>>, <<>>, {}),
         Shaped("b", 150, sb), Shaped("c", yc, sc), Shaped("d", 120, Aside) >> :
        sb \in {Plain, Job}, yc \in {150, 210}, sc \in {Plain, Unmeasured} }

\* The effect body of useAvoidIntersections: the function avoidIntersections
\* returns is dropped, and the effect returns no cleanup.
syncEffect(p, ns) ==
    IF ~p.skip
    THEN LET r == avoidIntersections(p.id, p.expandHeight, p.rootType, ns)
         IN  [nodes |-> r.nodes, calls |-> r.calls, runs |-> 1,
              inv |-> Record(p.id, p.expandHeight, p.rootType, r)]
    ELSE [nodes |-> ns, calls |-> 0, runs |-> 0, inv |-> inv]

\* Mutant: the timer is scheduled whatever skip says.
oftenEffectIgnoresSkip(p, token) ==
    <<[token |-> token, id |-> p.id, expandHeight |-> p.expandHeight,
       rootType |-> p.rootType]>>

\* The effect body of useAvoidIntersectionsOften: the task it schedules with
\* setTimeout, if any.
oftenEffect(p, token) ==
    IF ~p.skip
    THEN <<[token |-> token, id |-> p.id, expandHeight |-> p.expandHeight,
            rootType |-> p.rootType]>>
    ELSE <<>>

\* Mutant: the cleanup does not clear the timer.
oftenCleanupKeepsTimer(o) == o.timer

\* The cleanup of that effect, clearTimeout(timeout) or nothing: the queue it
\* leaves.
oftenCleanup(o) ==
    IF o.timeout = <<>> THEN o.timer
    ELSE SelectSeq(o.timer, LAMBDA t : t.token # o.timeout[1])

\* The hook instance after its effect ran for props p, on the queue left.
Scheduled(o, p, left) ==
    LET task == oftenEffect(p, o.scheduled + 1)
    IN  [o EXCEPT !.props = <<p>>,
                  !.timer = left \o task,
                  !.timeout = IF task = <<>> THEN <<>> ELSE <<task[1].token>>,
                  !.scheduled = o.scheduled + Len(task)]

\* The setTimeout callback.
oftenCallback(args, ns) ==
    LET r == avoidIntersections(args.id, args.expandHeight, args.rootType, ns)
    IN  [nodes |-> r.nodes, calls |-> r.calls, runs |-> 1,
         inv |-> Record(args.id, args.expandHeight, args.rootType, r)]

\* History: a re-run that pushed nodes because expandHeight alone grew.
Grew(old, new) == new.expandHeight > old.expandHeight
                  /\ new = [old EXCEPT !.expandHeight = new.expandHeight]

SyncRun(p, op) ==
    LET r == syncEffect(p, nodes)
    IN  /\ nodes' = r.nodes
        /\ calls' = r.calls
        /\ runs' = r.runs
        /\ inv' = r.inv
        /\ pre' = nodes
        /\ lastOp' = op
        /\ sync' = <<p>>
        /\ steps' = steps + 1
        /\ snapshot' = nodes'
        /\ UNCHANGED <<cleanup, often, shared>>

\* useAvoidIntersections mounts: its effect runs.
SyncMount(p) ==
    /\ steps < MaxHookSteps
    /\ sync = NoHook
    /\ SyncRun(p, "sync.mount")
    /\ expansion' = NoExpansion

\* A render of useAvoidIntersections with changed dependencies: its effect
\* runs again.
SyncRender(p) ==
    /\ steps < MaxHookSteps
    /\ sync # NoHook
    /\ p # sync[1]
    /\ SyncRun(p, "sync.render")
    /\ expansion' =
          IF Grew(sync[1], p) /\ calls' = 1
          THEN [stage |-> "expanded", hook |-> "sync", from |-> sync[1].expandHeight,
                base |-> nodes, nodesToMove |-> inv'.nodesToMove]
          ELSE IF /\ expansion.stage = "expanded" /\ expansion.hook = "sync"
                  /\ p = [sync[1] EXCEPT !.expandHeight = expansion.from]
               THEN [expansion EXCEPT !.stage = "collapsed"]
               ELSE NoExpansion

\* useAvoidIntersections unmounts: the effect registered no cleanup.
SyncUnmount ==
    /\ steps < MaxHookSteps
    /\ sync # NoHook
    /\ sync' = NoHook
    /\ pre' = nodes
    /\ calls' = 0
    /\ runs' = 0
    /\ lastOp' = "sync.unmount"
    /\ steps' = steps + 1
    /\ expansion' =
          IF expansion.stage = "expanded" /\ expansion.hook = "sync"
          THEN [expansion EXCEPT !.stage = "torn down"]
          ELSE NoExpansion
    /\ UNCHANGED <<nodes, inv, cleanup, often, snapshot, shared>>

OftenQuiet(op) ==
    /\ pre' = nodes
    /\ calls' = 0
    /\ runs' = 0
    /\ lastOp' = op
    /\ steps' = steps + 1
    /\ UNCHANGED <<nodes, inv, cleanup, sync, snapshot, shared>>

\* useAvoidIntersectionsOften mounts: its effect schedules the zero-delay timer.
OftenMount(p) ==
    /\ steps < MaxHookSteps
    /\ often.props = <<>>
    /\ often' = Scheduled(often, p, often.timer)
    /\ OftenQuiet("often.mount")
    /\ expansion' = NoExpansion

\* A render of useAvoidIntersectionsOften with changed dependencies (the
\* props, or a bumped nodeVersion or displayVersion of the context): the
\* previous effect's cleanup runs, then the effect.
OftenRender(p, bump) ==
    /\ steps < MaxHookSteps
    /\ often.props # <<>>
    /\ p # often.props[1] \/ bump # "none"
    /\ often' = Scheduled(
                    [often EXCEPT
                        !.nodeVersion = @ + (IF bump = "node" THEN 1 ELSE 0),
                        !.displayVersion = @ + (IF bump = "display" THEN 1 ELSE 0)],
                    p, oftenCleanup(often))
    /\ OftenQuiet("often.render")
    /\ expansion' =
          IF Grew(often.props[1], p) /\ bump = "none"
          THEN [stage |-> "scheduled", hook |-> "often",
                from |-> often.props[1].expandHeight,
                base |-> nodes, nodesToMove |-> EmptyMoves]
          ELSE IF /\ expansion.stage = "expanded" /\ expansion.hook = "often"
                  /\ bump = "none"
                  /\ p = [often.props[1] EXCEPT !.expandHeight = expansion.from]
               THEN [expansion EXCEPT !.stage = "collapsing"]
               ELSE NoExpansion

\* The first pending timer fires.
OftenTimeout ==
    /\ steps < MaxHookSteps
    /\ often.timer # <<>>
    /\ LET r == oftenCallback(often.timer[1], nodes)
       IN  /\ nodes' = r.nodes
           /\ calls' = r.calls
           /\ runs' = r.runs
           /\ inv' = r.inv
    /\ often' = [often EXCEPT !.timer = Tail(@), !.fired = often.timer[1].token]
    /\ pre' = nodes
    /\ lastOp' = "often.timeout"
    /\ steps' = steps + 1
    /\ expansion' =
          IF expansion.hook = "often" /\ expansion.stage = "scheduled" /\ calls' = 1
          THEN [expansion EXCEPT !.stage = "expanded",
                                 !.nodesToMove = inv'.nodesToMove]
          ELSE IF expansion.hook = "often" /\ expansion.stage = "collapsing"
               THEN [expansion EXCEPT !.stage = "collapsed"]
               ELSE NoExpansion
    /\ snapshot' = nodes'
    /\ UNCHANGED <<cleanup, sync, shared>>

\* useAvoidIntersectionsOften unmounts: the last effect's cleanup runs.
OftenUnmount ==
    /\ steps < MaxHookSteps
    /\ often.props # <<>>
    /\ often' = [often EXCEPT !.props = <<>>, !.timer = oftenCleanup(often),
                               !.timeout = <<>>]
    /\ OftenQuiet("often.unmount")
    /\ expansion' =
          IF expansion.stage = "expanded" /\ expansion.hook = "often"
          THEN [expansion EXCEPT !.stage = "torn down"]
          ELSE NoExpansion

InitHooks == \E ns \in HookLayouts : Start(ns)

NextHooks ==
    \/ \E p \in HookProps : SyncMount(p)
    \/ \E p \in HookProps : SyncRender(p)
    \/ SyncUnmount
    \/ \E p \in HookProps : OftenMount(p)
    \/ \E p \in HookProps, bump \in {"none", "node", "display"} : OftenRender(p, bump)
    \/ OftenTimeout
    \/ OftenUnmount

SpecHooks == InitHooks /\ [][NextHooks]_vars

-----------------------------------------------------------------------------
(* Runs that read a snapshot which lags behind the collection *)

MaxSharedSteps == 4

SharedIds == {"a", "b"}
SharedExpandHeights == {60, 120}
SharedRootType == "DATASET"

\* "c" lies 20 or 30 below the bottom of "b"; "d" is below both or beside them.
SharedLayouts ==
    { << Node("a", 0, 100, <<>>, <<>>, {}), Shaped("b", 150, Plain),
         Shaped("c", yc, Plain), Shaped("d", 300, sd) >> :
        yc \in {210, 220}, sd \in {Plain, Aside} }

\* Mutant: setNodes is handed the array computed from the snapshot.
avoidIntersectionsOverwrites(id, expandHeight, rootType, snap, ns) ==
    LET r == avoidIntersections(id, expandHeight, rootType, snap)
    IN  [r EXCEPT !.nodes = IF r.calls = 1 THEN r.nodes ELSE ns]

\* avoidIntersections when getNode and getNodes read snap while the store
\* holds ns: the MoveSet is computed from snap, and the updater moveNodes
\* hands to setNodes is applied to ns.
avoidIntersectionsOn(id, expandHeight, rootType, snap, ns) ==
    LET r == avoidIntersections(id, expandHeight, rootType, snap)
    IN  [r EXCEPT !.nodes = IF r.calls = 1
                            THEN moveNodes(ns, r.nodesToMove, TRUE) ELSE ns]

\* History of the runs for one node on one snapshot.
Counted(id, expandHeight, r) ==
    IF /\ snapshot = nodes /\ shared.count >= 2 /\ shared.id = id /\ ~shared.healed
    THEN [shared EXCEPT !.healed = TRUE]
    ELSE IF r.calls = 0
    THEN [shared EXCEPT !.id = "", !.snap = <<>>, !.count = 0, !.pushed = {},
                        !.heights = {}, !.healed = FALSE]
    ELSE IF /\ shared.count >= 1 /\ shared.id = id /\ shared.snap = snapshot
            /\ ~shared.healed
    THEN [shared EXCEPT !.count = @ + 1, !.pushed = @ \cup DOMAIN r.nodesToMove,
                        !.heights = @ \cup {expandHeight}]
    ELSE [shared EXCEPT !.id = id, !.snap = snapshot, !.count = 1,
                        !.pushed = DOMAIN r.nodesToMove, !.heights = {expandHeight},
                        !.healed = FALSE]

Forward(id, expandHeight, rootType, r, op) ==
    /\ nodes' = r.nodes
    /\ calls' = r.calls
    /\ inv' = Record(id, expandHeight, rootType, r)
    /\ runs' = 1
    /\ pre' = nodes
    /\ lastOp' = op
    /\ steps' = steps + 1
    /\ UNCHANGED <<snapshot, sync, often, expansion>>

\* A caller runs avoidIntersections on the snapshot and keeps the function it
\* returns.
SharedInvoke(id, expandHeight, rootType) ==
    /\ steps < MaxSharedSteps
    /\ ~shared.kept
    /\ LET r == avoidIntersectionsOn(id, expandHeight, rootType, snapshot, nodes)
       IN  /\ Forward(id, expandHeight, rootType, r, "shared.invoke")
           /\ cleanup' = [fn |-> r.returns, base |-> nodes, runs |-> 0]
           /\ shared' = [Counted(id, expandHeight, r) EXCEPT !.kept = TRUE]

\* Another caller runs avoidIntersections on the snapshot and drops what it
\* returns, as the effects of the two hooks do.
SharedTrigger(id, expandHeight, rootType) ==
    /\ steps < MaxSharedSteps
    /\ LET r == avoidIntersectionsOn(id, expandHeight, rootType, snapshot, nodes)
       IN  /\ Forward(id, expandHeight, rootType, r, "shared.trigger")
           /\ shared' = [Counted(id, expandHeight, r) EXCEPT
                            !.alone = IF r.calls = 1
                                      THEN moveNodes(@, r.nodesToMove, TRUE) ELSE @]
    /\ UNCHANGED cleanup

\* The store catches up: getNode and getNodes read the collection again.
Refresh ==
    /\ steps < MaxSharedSteps
    /\ snapshot # nodes
    /\ snapshot' = nodes
    /\ pre' = nodes
    /\ calls' = 0
    /\ runs' = 0
    /\ lastOp' = "shared.refresh"
    /\ steps' = steps + 1
    /\ UNCHANGED <<nodes, inv, cleanup, sync, often, expansion, shared>>

\* The caller calls the function it kept.
SharedCleanup ==
    /\ steps < MaxSharedSteps
    /\ shared.kept
    /\ LET r == callCleanup(cleanup.fn, nodes)
       IN  /\ nodes' = r.nodes
           /\ calls' = r.calls
    /\ cleanup' = [cleanup EXCEPT !.runs = @ + 1]
    /\ shared' = [shared EXCEPT !.id = "", !.snap = <<>>, !.count = 0, !.pushed = {},
                                !.heights = {}, !.healed = FALSE]
    /\ runs' = 0
    /\ pre' = nodes
    /\ lastOp' = "shared.cleanup"
    /\ steps' = steps + 1
    /\ UNCHANGED <<inv, snapshot, sync, often, expansion>>

InitShared == \E ns \in SharedLayouts : Start(ns)

NextShared ==
    \/ \E id \in SharedIds, expandHeight \in SharedExpandHeights :
          SharedInvoke(id, expandHeight, SharedRootType)
    \/ \E id \in SharedIds, expandHeight \in SharedExpandHeights :
          SharedTrigger(id, expandHeight, SharedRootType)
    \/ Refresh
    \/ SharedCleanup

SpecShared == InitShared /\ [][NextShared]_vars

-----------------------------------------------------------------------------
(* Vocabulary of the properties, stated on the collections themselves *)

IndexOf(ns, id) == CHOOSE i \in 1..Len(ns) : ns[i].id = id
NodeOf(ns, id) == ns[IndexOf(ns, id)]
YOf(ns, id) == NodeOf(ns, id).y
Ids(ns) == {ns[i].id : i \in 1..Len(ns)}

\* The height the property statements name: the default when none is set.
StatedHeight(n) == IF n.height = <<>> THEN LINEAGE_NODE_HEIGHT ELSE n.height[1]
\* The height the code uses: the default also when the height is 0.
UsedHeight(n) == IF n.height \in {<<>>, <<0>>} THEN LINEAGE_NODE_HEIGHT ELSE n.height[1]
UsedWidth(n) == IF n.width \in {<<>>, <<0>>} THEN LINEAGE_NODE_WIDTH ELSE n.width[1]

\* The horizontal spans [x, x + width) of two nodes intersect.
SpansMeet(a, b) == a.x < b.x + UsedWidth(b) /\ b.x < a.x + UsedWidth(a)

\* Contract of the candidate selection (a)-(d).
Eligible(n, self, rootType) ==
    /\ n.id # self.id
    /\ n.y >= self.y
    /\ rootType \notin n.data
    /\ SpansMeet(self, n)

\* The last operation was an avoidIntersections run that found its node.
Ran == lastOp = "invoke" /\ inv.id \in Ids(pre)
Self == NodeOf(pre, inv.id)
EligibleIds == {id \in Ids(pre) : Eligible(NodeOf(pre, id), Self, inv.rootType)}
Moved == DOMAIN inv.nodesToMove

\* p comes before q in ascending original-y order (equal y: snapshot order).
Before(p, q) ==
    \/ YOf(pre, p) < YOf(pre, q)
    \/ YOf(pre, p) = YOf(pre, q) /\ IndexOf(pre, p) < IndexOf(pre, q)

\* The eligible ids in ascending original-y order.
Ascending ==
    CHOOSE s \in [1..Cardinality(EligibleIds) -> EligibleIds] :
        \A i, j \in DOMAIN s : i < j => s[i] # s[j] /\ Before(s[i], s[j])

-----------------------------------------------------------------------------
(* Properties *)

\* C1. Separation invariant: after avoidIntersections has applied a non-empty
\* MoveSet, for any two nodes of the MoveSet in ascending original-y order the
\* later node's resulting top edge is at least the earlier node's resulting
\* bottom edge (y + height, the default height when none is set) plus
\* MIN_SEPARATION.
SeparationInvariant ==
    (Ran /\ calls = 1) =>
        \A p, q \in Moved :
            Before(p, q) =>
                YOf(nodes, q) >= YOf(nodes, p) + StatedHeight(NodeOf(nodes, p))
                                 + MIN_SEPARATION

\* Three nodes were pushed, so a pair that is not adjacent in the walk exists.
SeparationWitness ==
    /\ Ran /\ calls = 1
    /\ Cardinality(Moved) = 3
    /\ \E p, q \in Moved : YOf(pre, p) = YOf(pre, q) /\ p # q

\* C2. Round trip: the forward application of a MoveSet followed by the call
\* of the returned moveBack leaves every node of the MoveSet with exactly the
\* y-coordinate it had before the move.
RoundTrip ==
    (lastOp = "cleanup" /\ cleanup.runs = 1) =>
        \A id \in DOMAIN cleanup.fn.nodesToMove :
            YOf(nodes, id) = YOf(cleanup.base, id)

\* A moveBack over two nodes ran once and moved them.
RoundTripWitness ==
    /\ lastOp = "cleanup" /\ cleanup.runs = 1 /\ calls = 1
    /\ Cardinality(DOMAIN cleanup.fn.nodesToMove) >= 2
    /\ \A id \in DOMAIN cleanup.fn.nodesToMove : YOf(pre, id) > YOf(nodes, id)

\* C3. The push is reversible when the expansion collapses: once a hook has
\* pushed nodes for a grown expandHeight and has then re-run because
\* expandHeight returned to its earlier value, or has been torn down, the nodes
\* it pushed are back at their y-coordinates of before the expansion.
PushReversedOnCollapse ==
    expansion.stage \in {"collapsed", "torn down"} =>
        \A id \in DOMAIN expansion.nodesToMove :
            YOf(nodes, id) = YOf(expansion.base, id)

\* C4. Only eligible candidates are displaced: every id of the MoveSet is a
\* node of the snapshot other than the reference node, at or below it, not
\* transformational for the root type and overlapping it horizontally; every
\* other node keeps its y in the forward application.
OnlyEligibleDisplaced ==
    Ran =>
        /\ Moved \subseteq EligibleIds
        /\ \A i \in 1..Len(pre) :
              pre[i].id \notin EligibleIds => nodes[i] = pre[i]

\* A push happened although a node lies above the reference node and a
\* transformational or horizontally disjoint node lies in the range that the
\* push clears.
OnlyEligibleWitness ==
    /\ Ran /\ calls = 1
    /\ \E i \in 1..Len(pre) : pre[i].y < Self.y
    /\ \E i \in 1..Len(pre) :
          /\ inv.rootType \in pre[i].data \/ ~SpansMeet(Self, pre[i])
          /\ pre[i].y >= Self.y
          /\ pre[i].y < Self.y + inv.expandHeight + MIN_SEPARATION

\* The reference recurrence of the cascade over the ids s, from position i
\* with the given frontier; height[id] is the height a pushed node contributes.
RECURSIVE Recurrence(_, _, _, _)
Recurrence(s, i, frontier, height) ==
    IF i > Len(s) THEN EmptyMoves
    ELSE LET candidate == NodeOf(pre, s[i])
             gap == frontier + MIN_SEPARATION - candidate.y
         IN  IF gap > 0
             THEN (candidate.id :> gap) @@
                  Recurrence(s, i + 1, candidate.y + gap + height[candidate.id], height)
             ELSE EmptyMoves

\* C5 as stated. Cascade result: the MoveSet equals the recurrence over the
\* candidates in ascending y with frontier = self.y + expandHeight, gap =
\* frontier + MIN_SEPARATION - candidate.y, a push of gap when gap > 0 and the
\* frontier then at candidate.y + gap + candidate.height (the default height
\* when none is set), a stop otherwise.
CascadeResultAsStated ==
    Ran => inv.nodesToMove =
               Recurrence(Ascending, 1, Self.y + inv.expandHeight,
                          [id \in Ids(pre) |-> StatedHeight(NodeOf(pre, id))])

\* C5 as amended: the same recurrence, where a pushed candidate contributes the
\* default height when its height is not set or is 0. In particular self at
\* y = 100, expandHeight = 50, B at y = 150 of height 40 and C at y = 210
\* yield exactly {B: 10}.
CascadeResult ==
    /\ Ran => inv.nodesToMove =
                  Recurrence(Ascending, 1, Self.y + inv.expandHeight,
                             [id \in Ids(pre) |-> UsedHeight(NodeOf(pre, id))])
    /\ ( /\ Ran /\ inv.id = "a" /\ inv.expandHeight = 50
         /\ Self.y = 100
         /\ EligibleIds = {"b", "c"}
         /\ NodeOf(pre, "b").y = 150 /\ NodeOf(pre, "b").height = <<40>>
         /\ NodeOf(pre, "c").y = 210 )
       => inv.nodesToMove = ("b" :> 10)

\* The scenario of the specification ran.
CascadeResultWitness ==
    /\ Ran /\ inv.id = "a" /\ inv.expandHeight = 50
    /\ Self.y = 100
    /\ EligibleIds = {"b", "c"}
    /\ NodeOf(pre, "b").y = 150 /\ NodeOf(pre, "b").height = <<40>>
    /\ NodeOf(pre, "c").y = 210
    /\ YOf(nodes, "b") = 160 /\ YOf(nodes, "c") = 210

\* C6. Clearance from the growing node: after the forward application every
\* eligible candidate, pushed or not, has its top edge at or below
\* self.y + expandHeight + MIN_SEPARATION.
Clearance ==
    Ran =>
        \A id \in EligibleIds :
            YOf(nodes, id) >= Self.y + inv.expandHeight + MIN_SEPARATION

\* Candidates listed out of y order were pushed, and one was left in place.
ClearanceWitness ==
    /\ Ran /\ calls = 1
    /\ \E p, q \in Moved : IndexOf(pre, p) < IndexOf(pre, q) /\ YOf(pre, q) < YOf(pre, p)
    /\ EligibleIds \ Moved # {}

\* C7. All displacements of a MoveSet are strictly positive: a candidate whose
\* gap is 0 or negative is never recorded, and every recorded node moves down.
PositiveDisplacements ==
    /\ \A id \in Moved : inv.nodesToMove[id] > 0
    /\ Ran => \A id \in Moved : YOf(nodes, id) > YOf(pre, id)

\* A walk recorded a node and stopped at a candidate whose gap was exactly 0.
PositiveDisplacementsWitness ==
    /\ Ran /\ Moved # {}
    /\ \E id \in EligibleIds \ Moved :
          \E p \in Moved :
              YOf(pre, id) = YOf(nodes, p) + UsedHeight(NodeOf(pre, p)) + MIN_SEPARATION

\* C8. Early stop: the MoveSet is a prefix of the candidates in ascending y;
\* the candidate after the prefix has a gap <= 0 and neither it nor any
\* candidate after it is recorded.
Frontier(s, k) ==
    IF k = 0 THEN Self.y + inv.expandHeight
    ELSE YOf(nodes, s[k]) + UsedHeight(NodeOf(pre, s[k]))

EarlyStop ==
    Ran =>
        \E k \in 0..Len(Ascending) :
            /\ Moved = {Ascending[i] : i \in 1..k}
            /\ k < Len(Ascending) =>
                  Frontier(Ascending, k) + MIN_SEPARATION
                      - YOf(pre, Ascending[k + 1]) <= 0

\* The walk stopped at a clear candidate although a later candidate lies
\* within reach of that candidate's bottom edge.
EarlyStopWitness ==
    /\ Ran /\ Moved # {}
    /\ \E k \in 1..Len(Ascending) - 1 :
          /\ Ascending[k] \notin Moved
          /\ YOf(pre, Ascending[k + 1]) <
                 YOf(pre, Ascending[k]) + UsedHeight(NodeOf(pre, Ascending[k]))
                 + MIN_SEPARATION

\* The last direct call, whose returned function the caller holds.
CallAbsent == inv.id \notin Ids(cleanup.base)
CallSelf == NodeOf(cleanup.base, inv.id)
CallNothingToPush ==
    /\ ~CallAbsent
    /\ \A i \in 1..Len(cleanup.base) :
          Eligible(cleanup.base[i], CallSelf, inv.rootType) =>
              cleanup.base[i].y >= CallSelf.y + inv.expandHeight + MIN_SEPARATION

\* C9. Absent reference node: when getNode(id) finds nothing, the call makes
\* no call to setNodes and every call of the function it returned makes none
\* either; the collection is left unchanged.
AbsentNode ==
    (lastOp \in {"invoke", "cleanup"} /\ CallAbsent) =>
        calls = 0 /\ nodes = pre /\ nodes = cleanup.base

\* The function returned for an absent node was called twice.
AbsentNodeWitness ==
    lastOp = "cleanup" /\ CallAbsent /\ cleanup.runs = 2

\* C10. Empty MoveSet: when there is no candidate or no candidate has a
\* positive gap, the call makes no call to setNodes and every call of the
\* function it returned makes none either; the collection is left unchanged.
EmptyMoveSet ==
    (lastOp \in {"invoke", "cleanup"} /\ CallNothingToPush) =>
        /\ Moved = {}
        /\ calls = 0 /\ nodes = pre /\ nodes = cleanup.base

\* The function returned for a run with candidates, none of them in reach,
\* was called twice.
EmptyMoveSetWitness ==
    /\ lastOp = "cleanup" /\ CallNothingToPush /\ cleanup.runs = 2
    /\ \E i \in 1..Len(cleanup.base) :
          Eligible(cleanup.base[i], CallSelf, inv.rootType)

\* The MoveSet a moveNodes call of the last operation applied, and its
\* direction: the forward call of a run, or the moveBack of a cleanup.
Applied == IF lastOp = "cleanup" THEN cleanup.fn.nodesToMove ELSE inv.nodesToMove
Shift(id) ==
    IF id \notin DOMAIN Applied THEN 0
    ELSE IF lastOp = "cleanup" THEN -Applied[id] ELSE Applied[id]

\* C11. Frame of moveNodes: the collection it yields has the same length and
\* order; a node whose id is not in the MoveSet is unchanged; a node whose id
\* is in it differs only in y, by +amount when down and -amount otherwise; x,
\* width, height and data never change.
MoveNodesFrame ==
    (lastOp \in {"invoke", "cleanup"} /\ calls = 1) =>
        /\ Len(nodes) = Len(pre)
        /\ \A i \in 1..Len(pre) :
              /\ nodes[i].id = pre[i].id
              /\ nodes[i] = [pre[i] EXCEPT !.y = pre[i].y + Shift(pre[i].id)]
              /\ pre[i].id \notin DOMAIN Applied => nodes[i] = pre[i]

\* A moveBack moved a node with a measured height and left another unmoved.
MoveNodesFrameWitness ==
    /\ lastOp = "cleanup" /\ calls = 1
    /\ \E i, j \in 1..Len(pre) :
          /\ pre[i].id \in DOMAIN Applied /\ pre[i].height = <<40>>
          /\ nodes[i].y < pre[i].y
          /\ pre[j].id \notin DOMAIN Applied /\ pre[j].y >= pre[i].y

\* C13. No-overlap invariance: when no other node at or below the reference
\* node overlaps it horizontally, the MoveSet is empty for every expandHeight
\* and setNodes is not called.
NoOverlapInvariance ==
    (Ran /\ \A i \in 1..Len(pre) :
                (pre[i].id # Self.id /\ pre[i].y >= Self.y) => ~SpansMeet(Self, pre[i]))
        => Moved = {} /\ calls = 0 /\ nodes = pre

\* A run with the largest expandHeight found two horizontally disjoint nodes
\* in the range it clears and pushed nothing.
NoOverlapWitness ==
    /\ Ran /\ inv.expandHeight = 120 /\ calls = 0
    /\ Cardinality({i \in 1..Len(pre) :
                       /\ pre[i].id # Self.id /\ pre[i].y >= Self.y
                       /\ ~SpansMeet(Self, pre[i])
                       /\ inv.rootType \notin pre[i].data
                       /\ pre[i].y < Self.y + inv.expandHeight + MIN_SEPARATION}) >= 2
    /\ \A i \in 1..Len(pre) :
          (pre[i].id # Self.id /\ pre[i].y >= Self.y) => ~SpansMeet(Self, pre[i])

\* The variant of the walk that scans every candidate and skips, without
\* advancing the frontier, those whose gap is <= 0.
RECURSIVE SkipRecurrence(_, _, _)
SkipRecurrence(s, i, frontier) ==
    IF i > Len(s) THEN EmptyMoves
    ELSE LET candidate == NodeOf(pre, s[i])
             gap == frontier + MIN_SEPARATION - candidate.y
         IN  IF gap > 0
             THEN (candidate.id :> gap) @@
                  SkipRecurrence(s, i + 1, candidate.y + gap + UsedHeight(candidate))
             ELSE SkipRecurrence(s, i + 1, frontier)

\* C16. Early stop loses nothing relative to the frontier: the MoveSet computed
\* with the early break equals the one of the variant that scans all sorted
\* candidates and skips those whose gap is <= 0.
EarlyStopLosesNothing ==
    Ran => inv.nodesToMove = SkipRecurrence(Ascending, 1, Self.y + inv.expandHeight)

\* The walk pushed a node and stopped with two candidates left to scan.
EarlyStopLosesNothingWitness ==
    /\ Ran /\ Moved # {}
    /\ Cardinality(EligibleIds \ Moved) >= 2

\* The snapshots that hold the same nodes as ns in some order.
Reorderings(ns) ==
    { [i \in 1..Len(ns) |-> ns[f[i]]] :
        f \in {g \in [1..Len(ns) -> 1..Len(ns)] :
                  \A i, j \in 1..Len(ns) : i # j => g[i] # g[j]} }

\* The MoveSet the code computes for the last run's arguments on snapshot q.
MoveSetOn(q) ==
    avoidIntersections(inv.id, inv.expandHeight, inv.rootType, q).nodesToMove

\* q lists the candidates of equal y in the relative order pre lists them in.
KeepsTies(q) ==
    \A m, n \in EligibleIds :
        (YOf(pre, m) = YOf(pre, n) /\ IndexOf(pre, m) < IndexOf(pre, n))
            => IndexOf(q, m) < IndexOf(q, n)

\* C17 as stated. Deterministic tie-breaking: two snapshots that contain the
\* same nodes listed in a different order produce the same MoveSet for the same
\* reference node and expandHeight.
OrderIndependentAsStated ==
    Ran => \A q \in Reorderings(pre) : MoveSetOn(q) = inv.nodesToMove

\* C17 as amended: candidates of equal y keep their snapshot order, so two
\* snapshots that contain the same nodes produce the same MoveSet when they
\* list the candidates of equal y in the same relative order.
OrderIndependentUpToTies ==
    Ran => \A q \in Reorderings(pre) : KeepsTies(q) => MoveSetOn(q) = inv.nodesToMove

\* A run pushed candidates that the snapshot lists out of y order, two of
\* them with equal y.
OrderIndependentWitness ==
    /\ Ran /\ Cardinality(Moved) = 3
    /\ \E m, n \in Moved : m # n /\ YOf(pre, m) = YOf(pre, n)
    /\ \E m, n \in Moved : IndexOf(pre, m) < IndexOf(pre, n) /\ YOf(pre, n) < YOf(pre, m)

\* C18. Re-invocation is a fixpoint: a run with the same id, expandHeight and
\* rootType as the run before it, on the collection that run left, computes an
\* empty MoveSet and does not call setNodes.
Fixpoint ==
    (runs = 1 /\ inv.repeat # <<>>) =>
        inv.nodesToMove = EmptyMoves /\ calls = 0 /\ nodes = pre

\* The run before pushed two nodes, and the repeated run left them in place.
FixpointWitness ==
    /\ runs = 1 /\ inv.repeat # <<>>
    /\ Cardinality(DOMAIN inv.repeat[1]) >= 2
    /\ nodes = pre

\* The arguments a task of the deferred hook closes over are those of props p.
TaskOf(t, p) ==
    t.id = p.id /\ t.expandHeight = p.expandHeight /\ t.rootType = p.rootType

\* C12. Deferred-invocation cancellation: when the tracked inputs change before
\* the scheduled task has fired, that task is discarded and never runs; at most
\* one task is pending per hook instance; a deferred run uses the most recent
\* inputs, and the trigger itself never runs avoidIntersections.
DeferredCancellation ==
    /\ Len(often.timer) <= 1
    /\ \A i \in 1..Len(often.timer) :
          /\ often.timer[i].token = often.scheduled
          /\ often.props # <<>> /\ TaskOf(often.timer[i], often.props[1])
    /\ lastOp \in {"often.mount", "often.render", "often.unmount"} =>
          runs = 0 /\ calls = 0 /\ nodes = pre
    /\ lastOp = "often.timeout" =>
          /\ runs = 1
          /\ often.fired = often.scheduled
          /\ often.props # <<>> /\ TaskOf(inv, often.props[1])

\* The second task scheduled ran and pushed nodes; the first never ran.
DeferredCancellationWitness ==
    /\ lastOp = "often.timeout" /\ steps = 3
    /\ often.fired = 2 /\ often.scheduled = 2
    /\ calls = 1

\* C20. No work while skipped or after teardown: while skip is true neither
\* hook calls avoidIntersections and no deferred task is scheduled; once the
\* deferred hook is torn down or its skip flag is true, no task of it is
\* pending, so a task that had not fired never runs.
NoWorkWhileSkipped ==
    /\ (lastOp \in {"sync.mount", "sync.render"} /\ sync[1].skip) =>
          runs = 0 /\ calls = 0 /\ nodes = pre
    /\ (often.props # <<>> /\ often.props[1].skip) => often.timer = <<>>
    /\ often.props = <<>> => often.timer = <<>>
    /\ lastOp = "often.timeout" => often.props # <<>> /\ ~often.props[1].skip

\* A task was scheduled, never fired, and is gone after skip became true.
NoWorkWhileSkippedWitness ==
    /\ lastOp = "often.render" /\ often.props[1].skip
    /\ often.scheduled = 1 /\ often.fired = 0
    /\ often.timer = <<>>

-----------------------------------------------------------------------------
(* Pairs of nodes for the overlap predicate *)

\* Two nodes whose left edges and widths vary: width absent, 0, narrower and
\* wider than LINEAGE_NODE_WIDTH; "b" may start left of, inside, exactly at the
\* right edge of, or right of "a".
OverlapWidths == {<<>>, <<0>>, <<100>>, <<500>>}

OverlapLayouts ==
    { << Node("a", xa, 100, wa, <<>>, {}), Node("b", xb, 150, wb, <<40>>, {}) >> :
        xa \in {0, 100}, wa \in OverlapWidths,
        xb \in {0, 320, 400, 600}, wb \in OverlapWidths }

InitOverlap == \E ns \in OverlapLayouts : Start(ns)

SpecOverlap == InitOverlap /\ [][Next]_vars

\* Independent reading of the horizontal extent of a node.
Left(n) == n.x
Right(n) == n.x + UsedWidth(n)

\* C14. Symmetry of the overlap predicate: for every pair of nodes a, b, with
\* or without an explicit width, overlapsX(a, b) = overlapsX(b, a).
OverlapSymmetric ==
    \A i, j \in 1..Len(nodes) : overlapsX(nodes[i], nodes[j]) = overlapsX(nodes[j], nodes[i])

\* A run has tested the pair: "b" has an explicit width, "a" has none, their
\* horizontal extents properly intersect, and neither contains the other.
OverlapSymmetricWitness ==
    /\ lastOp = "invoke" /\ inv.found
    /\ \E i, j \in 1..Len(nodes) :
          /\ nodes[i].width = <<>> /\ nodes[j].width # <<>>
          /\ Left(nodes[i]) < Left(nodes[j]) /\ Left(nodes[j]) < Right(nodes[i])
          /\ Right(nodes[i]) < Right(nodes[j])
          /\ overlapsX(nodes[i], nodes[j])

-----------------------------------------------------------------------------
(* Properties of runs on a lagging snapshot *)

\* The last operation was a run on the current collection that followed two
\* or more runs for the same node which all pushed nodes from one snapshot.
Healed ==
    /\ lastOp \in {"shared.invoke", "shared.trigger"}
    /\ shared.healed
    /\ inv.id \in Ids(pre)

\* All the runs, the last included, had the same expandHeight.
SameHeights == shared.heights = {inv.expandHeight}

\* p and q are separated vertically by at least MIN_SEPARATION.
Apart(p, q) ==
    \/ YOf(nodes, q) >= YOf(nodes, p) + StatedHeight(NodeOf(nodes, p)) + MIN_SEPARATION
    \/ YOf(nodes, p) >= YOf(nodes, q) + StatedHeight(NodeOf(nodes, q)) + MIN_SEPARATION

\* The vertical extents of p and q intersect.
Overlapping(p, q) ==
    /\ YOf(nodes, q) < YOf(nodes, p) + StatedHeight(NodeOf(nodes, p))
    /\ YOf(nodes, p) < YOf(nodes, q) + StatedHeight(NodeOf(nodes, q))

\* C15 as stated. Stale snapshots are self-correcting: after two or more
\* forward runs for one reference node computed from the same stale snapshot
\* and all applied, one further run on a fresh snapshot leaves every
\* candidate's top edge at or below self.y + expandHeight + MIN_SEPARATION and
\* any two previously pushed candidates separated by at least MIN_SEPARATION.
SelfCorrectingAsStated ==
    (Healed /\ SameHeights) =>
        /\ \A id \in EligibleIds :
              YOf(nodes, id) >= Self.y + inv.expandHeight + MIN_SEPARATION
        /\ \A p, q \in shared.pushed : p # q => Apart(p, q)

\* C15, amended. After such runs, one further run on a fresh snapshot leaves
\* every candidate's top edge at or below self.y + expandHeight +
\* MIN_SEPARATION, and it moves no node back up: the displacements the stale
\* runs added stay in place.
SelfCorrecting ==
    Healed =>
        /\ \A id \in EligibleIds :
              YOf(nodes, id) >= Self.y + inv.expandHeight + MIN_SEPARATION
        /\ \A id \in Ids(pre) : YOf(nodes, id) >= YOf(pre, id)
        /\ \A id \in shared.pushed : YOf(pre, id) > YOf(shared.snap, id)

\* Two candidates pushed twice from one snapshot overlap after the further
\* run, which had the same expandHeight and found nothing to push.
SelfCorrectingWitness ==
    /\ Healed /\ SameHeights
    /\ shared.count = 2
    /\ calls = 0
    /\ \E p, q \in shared.pushed : p # q /\ Overlapping(p, q)

\* The further run pushed nodes itself.
SelfCorrectingPushWitness ==
    /\ Healed /\ calls = 1
    /\ Moved \cap shared.pushed # {}

\* C19. Revert is exact under interleaving: when a MoveSet M1 has been applied
\* and its moveBack called once, with the MoveSets of other runs applied
\* before, between or after, every node has the y-coordinate it has when only
\* the other MoveSets are applied.
RevertExact ==
    (shared.kept /\ cleanup.runs = 1) =>
        \A id \in Ids(nodes) : YOf(nodes, id) = YOf(shared.alone, id)

\* Another run moved a node of M1 between the application of M1 and its
\* moveBack.
RevertExactWitness ==
    /\ lastOp = "shared.cleanup" /\ cleanup.runs = 1
    /\ cleanup.fn.moveBack
    /\ \E id \in DOMAIN cleanup.fn.nodesToMove :
          /\ YOf(nodes, id) # YOf(cleanup.base, id)
          /\ cleanup.fn.nodesToMove[id] # YOf(nodes, id) - YOf(cleanup.base, id)

====
